---- MODULE Spec2Model ----
(***************************************************************************)
(* Model of commanderbot_ext.help_chat: the report build context           *)
(* (help_chat_report.py) and the nom context (help_chat_nom_context.py).   *)
(*                                                                         *)
(* A coroutine runs without interruption between two awaits, so every      *)
(* action is the code between one await and the next.  Objects created by  *)
(* reset() live in a heap indexed by the run that created them             *)
(* (channel_states, user_tables); the context's attributes                 *)
(* self._channel_states and self._user_table hold references into it.      *)
(***************************************************************************)
EXTENDS Integers, Sequences, FiniteSets, TLC

\* ------------------------------------------------------------------ bounds
MaxRuns == 2
MaxChannels == 2
MaxMessages == 2
MaxContentLen == 2
MaxLines == 3
MaxLineLen == 4
MaxSplit == 4
MaxUsers == 3
MaxRows == 2

\* ------------------------------------------------------------------ values
\* Python's None, for Optional[int] counters and Optional[Message] references.
None == -1

Runs == 1 .. MaxRuns

\* The help channels a guild may configure, in configuration order.
ChannelNames == <<"A", "B", "C", "D">>

Authors == {"U1", "U2"}

\* message.created_at: a datetime; one instant on each of two days.
Instants ==
    { [year |-> 2024, month |-> 1, day |-> 1, hour |-> 17],
      [year |-> 2024, month |-> 1, day |-> 2, hour |-> 9] }

\* A text of n characters.
Text(n) == [i \in 1 .. n |-> "x"]

\* message.content: a str (possibly empty), or a value that is not a str.
Contents ==
    { [is_str |-> FALSE, text |-> <<>>] }
        \cup { [is_str |-> TRUE, text |-> Text(n)] : n \in 0 .. MaxContentLen }

Messages == [author : Authors, created_at : Instants, content : Contents]

INCOMPLETE == "INCOMPLETE"
IN_PROGRESS == "IN_PROGRESS"
COMPLETE == "COMPLETE"

ChannelStatus == {INCOMPLETE, IN_PROGRESS, COMPLETE}

STATUS_EMOJI ==
    [s \in ChannelStatus |->
        CASE s = INCOMPLETE -> "white_large_square"
          [] s = IN_PROGRESS -> "arrows_counterclockwise"
          [] s = COMPLETE -> "white_check_mark"]

\* ChannelState(help_channel, channel): the dataclass defaults.
ChannelState(help_channel) ==
    [channel |-> help_channel,
     status |-> INCOMPLETE,
     total_messages |-> None,
     total_message_length |-> None]

VARIABLES
    cls,                    \* the class of the context object
    reuse,                  \* how the caller uses the context: "single", "sequential", "overlap"
    self_after,             \* self.after: the day of January 2024 the window starts at
    self_before,            \* self.before: the day of January 2024 the window ends before
    help_channels,          \* self.help_channels
    self_channel_states,    \* self._channel_states: None or the run whose list it is
    self_user_table,        \* self._user_table: None or the run whose table it is
    self_progress_message,  \* self._progress_message: None or a message id
    channel_states,         \* heap: the list of ChannelState made by each run's reset()
    user_tables,            \* heap: the user table made by each run's reset()
    pc,                     \* each run's position: the await it is suspended at
    iter_list,              \* each run's for loop: the list it iterates
    idx,                    \* each run's for loop: the index of channel_state
    fetched,                \* each run: the messages each channel's history has yielded
    progress_text,          \* update(): the local progress_text of the pending call
    progress_target,        \* update(): the message being edited, None for a reply
    typing,                 \* whether the run holds ctx.channel.typing()
    exception,              \* the exception that ended each run, and the await it was raised at
    report,                 \* what build() returned
    sent,                   \* the messages and edits the chat platform received
    self_summary_messages,  \* self._summary_messages of the nom context
    summary_batches,        \* send_summary_messages(): the local batches of each run
    summary_no,             \* send_summary_messages(): the batch being sent, 0 for none
    split_length,           \* options.split_length / options.nom_summary_batch_length
    max_rows,               \* options.max_rows
    min_score,              \* options.min_score
    rows,                   \* build_summary_lines(): the user results each call gave a line
    lines,                  \* batch_summary_text(): the lines it iterates
    line_no,                \* batch_summary_text(): the lines consumed so far
    batch,                  \* batch_summary_text(): the local batch
    yielded,                \* batch_summary_text(): the batches yielded so far
    batch_pc                \* batch_summary_text(): "idle", "loop" or "done"

ctxVars == <<cls, reuse, self_after, self_before, help_channels, self_channel_states, self_user_table,
             self_progress_message, channel_states, user_tables>>
runVars == <<pc, iter_list, idx, fetched, progress_text, progress_target,
             typing, exception, report, sent>>
nomVars == <<self_summary_messages, summary_batches, summary_no>>
summaryVars == <<max_rows, min_score, rows>>
batchVars == <<lines, line_no, batch, yielded, batch_pc>>
vars == <<ctxVars, runVars, nomVars, split_length, summaryVars, batchVars>>

NoText ==
    [after_str |-> <<>>, before_str |-> <<>>, progress_emoji |-> <<>>,
     status_text |-> <<>>, count |-> 0]
NoReport == [channel_states |-> None, user_table |-> None]
NoException == [type |-> "", at |-> ""]

\* The exception of the given type raised at the await the run is suspended at.
Raised(r, type) == [type |-> type, at |-> pc[r]]

\* ------------------------------------------------------------------ helpers

RECURSIVE SumSeq(_)
SumSeq(s) == IF s = <<>> THEN 0 ELSE Head(s) + SumSeq(Tail(s))

RECURSIVE SelectIndices(_, _, _)
\* The indices i of states, ascending, with states[i].status = status.
SelectIndices(states, status, i) ==
    IF i > Len(states) THEN <<>>
    ELSE (IF states[i].status = status THEN <<i>> ELSE <<>>)
            \o SelectIndices(states, status, i + 1)

get_states_with_status(states, status) ==
    [k \in 1 .. Len(SelectIndices(states, status, 1)) |->
        states[SelectIndices(states, status, 1)[k]]]

\* Mutant: only the first channel in progress is reported.
get_states_in_progress_first(states) ==
    IF get_states_with_status(states, IN_PROGRESS) = <<>> THEN <<>>
    ELSE <<get_states_with_status(states, IN_PROGRESS)[1]>>

get_states_in_progress(states) == get_states_with_status(states, IN_PROGRESS)

is_finished(states) == \A i \in 1 .. Len(states) : states[i].status = COMPLETE

\* str(n) for a counter: its decimal digits, or "None".
RECURSIVE Str(_)
Str(n) ==
    IF n = None THEN <<"N", "o", "n", "e">>
    ELSE IF n < 10 THEN <<(<<"0", "1", "2", "3", "4", "5", "6", "7", "8", "9">>)[n + 1]>>
    ELSE Str(n \div 10) \o Str(n % 10)

\* strftime(DATE_FMT_YYYY_MM_DD) of a day of January 2024.
date_str(day) ==
    <<"2", "0", "2", "4", "-", "0", "1", "-">>
        \o (IF day < 10 THEN <<"0">> ELSE <<>>) \o Str(day)

\* state.channel.mention
mention(channel) == <<"<", "#", channel, ">">>

\* The progress text: the dates, the glyph row, the status line and the number of
\* help channels.
build_progress_text(states) ==
    [after_str |-> date_str(self_after),
     before_str |-> date_str(self_before),
     progress_emoji |-> [i \in 1 .. Len(states) |-> STATUS_EMOJI[states[i].status]],
     status_text |->
        IF get_states_in_progress(states) # <<>>
        THEN <<"Scanning: ">>
                \o [k \in 1 .. Len(get_states_in_progress(states)) |->
                        mention(get_states_in_progress(states)[k].channel)]
        ELSE IF is_finished(states) THEN <<"Done!">> ELSE <<>>,
     count |-> Len(help_channels)]

\* The list self._channel_states refers to.
CurrentStates == channel_states[self_channel_states]

\* ------------------------------------------------------------------ the user table
\* Position of user_id in the table (dict insertion order), 0 when absent.
UserIndex(table, user_id) ==
    IF \E k \in 1 .. Len(table) : table[k].user_id = user_id
    THEN CHOOSE k \in 1 .. Len(table) : table[k].user_id = user_id
    ELSE 0

\* self._user_table[author.id] on a defaultdict: the key is inserted when missing.
table_getitem(table, user_id) ==
    IF UserIndex(table, user_id) # 0 THEN table
    ELSE Append(table, [user_id |-> user_id, user_record |-> <<>>])

\* user_record[daily_key] += message_length on a defaultdict(int).
record_iadd(user_record, daily_key, message_length) ==
    [k \in (DOMAIN user_record) \cup {daily_key} |->
        IF k = daily_key
        THEN (IF daily_key \in DOMAIN user_record THEN user_record[daily_key] ELSE 0)
                + message_length
        ELSE user_record[k]]

\* The daily record key (year, month, day) of a message.
daily_key_of(message) ==
    <<message.created_at.year, message.created_at.month, message.created_at.day>>

\* len(content)
message_length_of(message) == Len(message.content.text)

\* isinstance(content, str)
has_content(message) == message.content.is_str

\* Lines 242-251: update the author's record.
update_user_table(table, message) ==
    LET with_user == table_getitem(table, message.author)
        k == UserIndex(with_user, message.author)
    IN  [with_user EXCEPT ![k].user_record =
            record_iadd(@, daily_key_of(message), message_length_of(message))]

\* ------------------------------------------------------------------ channel state steps
\* Mutant: the in-progress mark is forgotten.
mark_in_progress_skipped(states, i) == states

\* channel_state.status = ChannelStatus.IN_PROGRESS
mark_in_progress(states, i) == [states EXCEPT ![i].status = IN_PROGRESS]

\* Mutant: the complete mark is forgotten.
mark_complete_skipped(states, i) == states

\* channel_state.status = ChannelStatus.COMPLETE
mark_complete(states, i) == [states EXCEPT ![i].status = COMPLETE]

\* Mutant: only one of the two counters is initialised.
start_counters_partial(states, i) == [states EXCEPT ![i].total_messages = 0]

\* channel_state.total_messages = 0; channel_state.total_message_length = 0
start_counters(states, i) ==
    [states EXCEPT ![i].total_messages = 0, ![i].total_message_length = 0]

\* Mutant: the content length is not added to the channel's total.
count_message_without_length(states, i, message) ==
    [states EXCEPT ![i].total_messages = @ + 1]

\* Lines 238-240: update the channel state for one message with content.
count_message(states, i, message) ==
    [states EXCEPT ![i].total_messages = @ + 1,
                   ![i].total_message_length = @ + message_length_of(message)]

\* reset(): one fresh ChannelState per help channel, in order.
fresh_channel_states ==
    [i \in 1 .. Len(help_channels) |-> ChannelState(help_channels[i])]

\* ------------------------------------------------------------------ update()
\* update() up to its await: the text is built and the edit or the reply is issued.
update_call(r, states) ==
    /\ progress_text' = [progress_text EXCEPT ![r] = build_progress_text(states)]
    /\ progress_target' = [progress_target EXCEPT ![r] = self_progress_message']

\* update() from its await on: the platform has taken the text; a reply's message
\* is stored in self._progress_message.
update_return(r) ==
    /\ sent' = Append(sent,
            [run |-> r,
             kind |-> "progress",
             op |-> IF progress_target[r] # None THEN "edit"
                    ELSE IF cls = "HelpChatNomContext" THEN "send" ELSE "reply",
             message |-> IF progress_target[r] = None THEN Len(sent) + 1
                         ELSE progress_target[r],
             content |-> progress_text[r]])
    /\ self_progress_message' =
            IF progress_target[r] = None THEN Len(sent) + 1 ELSE self_progress_message

\* The head of "for channel_state in self._channel_states" with the next index i,
\* heap being the channel states as the step has left them so far: either the next
\* channel is marked in-progress and update() is called inside the typing scope, or
\* the loop and the typing scope end and the final update() is called.
loop_head(r, heap, i) ==
    IF i <= Len(heap[iter_list'[r]])
    THEN /\ channel_states' =
                [heap EXCEPT ![iter_list'[r]] = mark_in_progress(@, i)]
         /\ idx' = [idx EXCEPT ![r] = i]
         /\ typing' = [typing EXCEPT ![r] = TRUE]
         /\ update_call(r, channel_states'[self_channel_states'])
         /\ pc' = [pc EXCEPT ![r] = "update_scanning"]
    ELSE /\ channel_states' = heap
         /\ idx' = [idx EXCEPT ![r] = i]
         /\ typing' = [typing EXCEPT ![r] = FALSE]
         /\ update_call(r, channel_states'[self_channel_states'])
         /\ pc' = [pc EXCEPT ![r] = "update_final"]

\* history(after=self.after, before=self.before): the instant lies in the window.
in_window(instant) == self_after <= instant.day /\ instant.day < self_before

\* All messages the run has fetched, over all channels.
TotalFetched(r) == SumSeq([i \in 1 .. Len(fetched[r]) |-> Len(fetched[r][i])])

\* All messages fetched so far, over all runs.
AllFetched == SumSeq([r \in Runs |-> TotalFetched(r)])

\* The messages a history may yield to build(): when the context is used for more
\* than one run, those of one author on one day with a content of one character.
HistoryMessages ==
    IF reuse = "single" THEN Messages
    ELSE { m \in Messages : /\ m.author = "U1"
                            /\ m.created_at.day = 1
                            /\ Len(m.content.text) = 1 }

\* A run may start when the caller's use of the context allows it.
may_start(r) ==
    /\ pc[r] = "idle"
    /\ \A q \in Runs : q < r => pc[q] # "idle"
    /\ CASE reuse = "single" -> r = 1
         [] reuse = "sequential" -> \A q \in Runs : pc[q] \in {"idle", "returned", "raised"}
         [] OTHER -> TRUE

\* ------------------------------------------------------------------ build()
\* Mutant: reset() leaves self._progress_message as it is.
Build_Begin_keeps_progress_message(r) ==
    /\ cls = "HelpChatReportBuildContext"
    /\ may_start(r)
    /\ UNCHANGED self_progress_message
    /\ channel_states' = [channel_states EXCEPT ![r] = fresh_channel_states]
    /\ user_tables' = [user_tables EXCEPT ![r] = <<>>]
    /\ self_channel_states' = r
    /\ self_user_table' = r
    /\ update_call(r, channel_states'[self_channel_states'])
    /\ fetched' = [fetched EXCEPT ![r] = [i \in 1 .. Len(help_channels) |-> <<>>]]
    /\ pc' = [pc EXCEPT ![r] = "update_initial"]
    /\ UNCHANGED <<cls, reuse, self_after, self_before, help_channels, iter_list, idx, typing, exception,
                   report, sent>>
    /\ UNCHANGED <<nomVars, split_length, summaryVars, batchVars>>

\* Lines 213-215: reset(), then update() up to the reply it awaits.
Build_Begin(r) ==
    /\ cls = "HelpChatReportBuildContext"
    /\ may_start(r)
    /\ self_progress_message' = None
    /\ channel_states' = [channel_states EXCEPT ![r] = fresh_channel_states]
    /\ user_tables' = [user_tables EXCEPT ![r] = <<>>]
    /\ self_channel_states' = r
    /\ self_user_table' = r
    /\ update_call(r, channel_states'[self_channel_states'])
    /\ fetched' = [fetched EXCEPT ![r] = [i \in 1 .. Len(help_channels) |-> <<>>]]
    /\ pc' = [pc EXCEPT ![r] = "update_initial"]
    /\ UNCHANGED <<cls, reuse, self_after, self_before, help_channels, iter_list, idx, typing, exception,
                   report, sent>>
    /\ UNCHANGED <<nomVars, split_length, summaryVars, batchVars>>

\* Lines 215-218: the initial update() returns; the typing scope is entered.
Build_InitialUpdated(r) ==
    /\ cls = "HelpChatReportBuildContext"
    /\ pc[r] = "update_initial"
    /\ update_return(r)
    /\ pc' = [pc EXCEPT ![r] = "typing_enter"]
    /\ UNCHANGED <<cls, reuse, self_after, self_before, help_channels, self_channel_states, self_user_table,
                   channel_states, user_tables, iter_list, idx, fetched,
                   progress_text, progress_target, typing, exception, report>>
    /\ UNCHANGED <<nomVars, split_length, summaryVars, batchVars>>

\* Lines 218-224 (or 218, 257 for no channels): the typing scope is held and the
\* loop starts over the list self._channel_states refers to.
Build_EnterLoop(r) ==
    /\ cls = "HelpChatReportBuildContext"
    /\ pc[r] = "typing_enter"
    /\ iter_list' = [iter_list EXCEPT ![r] = self_channel_states]
    /\ UNCHANGED <<self_channel_states, self_progress_message>>
    /\ loop_head(r, channel_states, 1)
    /\ UNCHANGED <<cls, reuse, self_after, self_before, help_channels, self_user_table, user_tables, fetched,
                   exception, report, sent>>
    /\ UNCHANGED <<nomVars, split_length, summaryVars, batchVars>>

\* Mutant: update() is not awaited after the in-progress mark, so nothing is sent.
Build_StartHistory_no_update(r) ==
    /\ cls = "HelpChatReportBuildContext"
    /\ pc[r] = "update_scanning"
    /\ channel_states' =
            [channel_states EXCEPT ![iter_list[r]] = start_counters(@, idx[r])]
    /\ pc' = [pc EXCEPT ![r] = "history"]
    /\ UNCHANGED <<cls, reuse, self_after, self_before, help_channels, self_channel_states, self_user_table,
                   self_progress_message, user_tables, iter_list, idx, fetched,
                   progress_text, progress_target, typing, exception, report, sent>>
    /\ UNCHANGED <<nomVars, split_length, summaryVars, batchVars>>

\* Lines 224-230: the update() of the in-progress mark returns, the history is
\* opened and the counters are set to 0.
Build_StartHistory(r) ==
    /\ cls = "HelpChatReportBuildContext"
    /\ pc[r] = "update_scanning"
    /\ update_return(r)
    /\ channel_states' =
            [channel_states EXCEPT ![iter_list[r]] = start_counters(@, idx[r])]
    /\ pc' = [pc EXCEPT ![r] = "history"]
    /\ UNCHANGED <<cls, reuse, self_after, self_before, help_channels, self_channel_states, self_user_table,
                   user_tables, iter_list, idx, fetched, progress_text,
                   progress_target, typing, exception, report>>
    /\ UNCHANGED <<nomVars, split_length, summaryVars, batchVars>>

\* Lines 231-251: the history yields one more message, which is processed.
Build_Message(r) ==
    /\ cls = "HelpChatReportBuildContext"
    /\ pc[r] = "history"
    /\ AllFetched < MaxMessages
    /\ \E message \in HistoryMessages :
        /\ in_window(message.created_at)
        /\ fetched' = [fetched EXCEPT ![r][idx[r]] = Append(@, message)]
        /\ IF has_content(message)
           THEN /\ channel_states' =
                        [channel_states EXCEPT ![iter_list[r]] =
                            count_message(@, idx[r], message)]
                /\ user_tables' =
                        [user_tables EXCEPT ![self_user_table] =
                            update_user_table(@, message)]
           ELSE UNCHANGED <<channel_states, user_tables>>
    /\ UNCHANGED <<cls, reuse, self_after, self_before, help_channels, self_channel_states, self_user_table,
                   self_progress_message, pc, iter_list, idx, progress_text,
                   progress_target, typing, exception, report, sent>>
    /\ UNCHANGED <<nomVars, split_length, summaryVars, batchVars>>

\* Lines 231, 255, then 220-224 or 257: the history is exhausted, the channel is
\* marked complete and the loop goes on.
Build_ChannelComplete(r) ==
    /\ cls = "HelpChatReportBuildContext"
    /\ pc[r] = "history"
    /\ UNCHANGED <<iter_list, self_channel_states, self_progress_message>>
    /\ loop_head(r,
                 [channel_states EXCEPT ![iter_list[r]] = mark_complete(@, idx[r])],
                 idx[r] + 1)
    /\ UNCHANGED <<cls, reuse, self_after, self_before, help_channels, self_user_table, user_tables, fetched,
                   exception, report, sent>>
    /\ UNCHANGED <<nomVars, split_length, summaryVars, batchVars>>

\* Mutant: the channel is marked complete on the way out (as in a finally block).
Build_FetchError_marks_complete(r) ==
    /\ cls = "HelpChatReportBuildContext"
    /\ pc[r] = "history"
    /\ pc' = [pc EXCEPT ![r] = "raised"]
    /\ exception' = [exception EXCEPT ![r] = Raised(r, "HTTPException")]
    /\ typing' = [typing EXCEPT ![r] = FALSE]
    /\ channel_states' =
            [channel_states EXCEPT ![iter_list[r]] = mark_complete(@, idx[r])]
    /\ UNCHANGED <<cls, reuse, self_after, self_before, help_channels, self_channel_states, self_user_table,
                   self_progress_message, user_tables, iter_list, idx, fetched,
                   progress_text, progress_target, report, sent>>
    /\ UNCHANGED <<nomVars, split_length, summaryVars, batchVars>>

\* Line 231: fetching from the history fails; the exception leaves the typing
\* scope and build().
Build_FetchError(r) ==
    /\ cls = "HelpChatReportBuildContext"
    /\ pc[r] = "history"
    /\ pc' = [pc EXCEPT ![r] = "raised"]
    /\ exception' = [exception EXCEPT ![r] = Raised(r, "HTTPException")]
    /\ typing' = [typing EXCEPT ![r] = FALSE]
    /\ UNCHANGED <<ctxVars, iter_list, idx, fetched, progress_text, progress_target,
                   report, sent>>
    /\ UNCHANGED <<nomVars, split_length, summaryVars, batchVars>>

\* Lines 201-209: the reply or the edit awaited by update() fails.
Build_UpdateError(r) ==
    /\ cls = "HelpChatReportBuildContext"
    /\ pc[r] \in {"update_initial", "update_scanning", "update_final"}
    /\ pc' = [pc EXCEPT ![r] = "raised"]
    /\ exception' = [exception EXCEPT ![r] = Raised(r, "HTTPException")]
    /\ typing' = [typing EXCEPT ![r] = FALSE]
    /\ UNCHANGED <<ctxVars, iter_list, idx, fetched, progress_text, progress_target,
                   report, sent>>
    /\ UNCHANGED <<nomVars, split_length, summaryVars, batchVars>>

\* Line 218: entering the typing scope fails; the scope is not held.
Build_TypingError(r) ==
    /\ cls = "HelpChatReportBuildContext"
    /\ pc[r] = "typing_enter"
    /\ pc' = [pc EXCEPT ![r] = "raised"]
    /\ exception' = [exception EXCEPT ![r] = Raised(r, "HTTPException")]
    /\ UNCHANGED <<ctxVars, iter_list, idx, fetched, progress_text, progress_target,
                   typing, report, sent>>
    /\ UNCHANGED <<nomVars, split_length, summaryVars, batchVars>>

\* Mutant: the cancellation leaves the typing scope held (no "async with").
Build_Cancel_keeps_typing(r) ==
    /\ cls = "HelpChatReportBuildContext"
    /\ pc[r] \in {"update_initial", "typing_enter", "update_scanning", "history",
                  "update_final"}
    /\ pc' = [pc EXCEPT ![r] = "raised"]
    /\ exception' = [exception EXCEPT ![r] = Raised(r, "CancelledError")]
    /\ UNCHANGED <<ctxVars, iter_list, idx, fetched, progress_text, progress_target,
                   typing, report, sent>>
    /\ UNCHANGED <<nomVars, split_length, summaryVars, batchVars>>

\* The task running build() is cancelled while suspended at any of its awaits.
Build_Cancel(r) ==
    /\ cls = "HelpChatReportBuildContext"
    /\ pc[r] \in {"update_initial", "typing_enter", "update_scanning", "history",
                  "update_final"}
    /\ pc' = [pc EXCEPT ![r] = "raised"]
    /\ exception' = [exception EXCEPT ![r] = Raised(r, "CancelledError")]
    /\ typing' = [typing EXCEPT ![r] = FALSE]
    /\ UNCHANGED <<ctxVars, iter_list, idx, fetched, progress_text, progress_target,
                   report, sent>>
    /\ UNCHANGED <<nomVars, split_length, summaryVars, batchVars>>

\* Lines 257-265: the final update() returns and the report is returned.
Build_Return(r) ==
    /\ cls = "HelpChatReportBuildContext"
    /\ pc[r] = "update_final"
    /\ update_return(r)
    /\ report' = [report EXCEPT ![r] =
            [channel_states |-> self_channel_states, user_table |-> self_user_table]]
    /\ pc' = [pc EXCEPT ![r] = "returned"]
    /\ UNCHANGED <<cls, reuse, self_after, self_before, help_channels, self_channel_states, self_user_table,
                   channel_states, user_tables, iter_list, idx, fetched,
                   progress_text, progress_target, typing, exception>>
    /\ UNCHANGED <<nomVars, split_length, summaryVars, batchVars>>

\* ------------------------------------------------------------------ batch_summary_text()
\* A str is a sequence of characters; this one is "\n".
Newline == <<"\n">>

\* would_be_text = batch + "\n" + line
would_be_text(acc, line) == acc \o Newline \o line

\* Mutant: the limit is tested on the line alone, not on the batch with the line.
batch_fits_line_only(acc, line, limit) == Len(line) <= limit

\* len(would_be_text) <= options.split_length
batch_fits(acc, line, limit) == Len(would_be_text(acc, line)) <= limit

\* The body of the for loop for one line, on the generator's state
\* [batch, yielded]: the line joins the batch, or the batch is yielded and the line
\* starts the next one.
batch_line(state, line, limit) ==
    IF batch_fits(state.batch, line, limit)
    THEN [batch |-> would_be_text(state.batch, line), yielded |-> state.yielded]
    ELSE [batch |-> line, yielded |-> Append(state.yielded, state.batch)]

\* Mutant: the batch left after the loop is dropped.
batch_end_no_flush(state) == state.yielded

\* After the loop: "if batch: yield batch".
batch_end(state) ==
    IF state.batch # <<>> THEN Append(state.yielded, state.batch) ELSE state.yielded

RECURSIVE batch_loop(_, _, _)
batch_loop(state, rest, limit) ==
    IF rest = <<>> THEN state
    ELSE batch_loop(batch_line(state, Head(rest), limit), Tail(rest), limit)

\* list(batch_summary_text(...)) over the given lines.
batch_summary_text(all_lines, limit) ==
    batch_end(batch_loop([batch |-> <<>>, yielded |-> <<>>], all_lines, limit))

\* batch = "": the generator starts.
Batch_Start ==
    /\ batch_pc = "idle"
    /\ batch' = <<>>
    /\ yielded' = <<>>
    /\ line_no' = 0
    /\ batch_pc' = "loop"
    /\ UNCHANGED <<ctxVars, runVars, nomVars, split_length, summaryVars, lines>>

\* One iteration of "for line in ...".
Batch_Line ==
    /\ batch_pc = "loop"
    /\ line_no < Len(lines)
    /\ LET after == batch_line([batch |-> batch, yielded |-> yielded],
                               lines[line_no + 1], split_length)
       IN  /\ batch' = after.batch
           /\ yielded' = after.yielded
    /\ line_no' = line_no + 1
    /\ UNCHANGED <<ctxVars, runVars, nomVars, split_length, summaryVars, lines, batch_pc>>

\* The lines are exhausted: the last batch is yielded if it is not empty.
Batch_End ==
    /\ batch_pc = "loop"
    /\ line_no = Len(lines)
    /\ yielded' = batch_end([batch |-> batch, yielded |-> yielded])
    /\ batch_pc' = "done"
    /\ UNCHANGED <<ctxVars, runVars, nomVars, split_length, summaryVars, lines, line_no, batch>>

\* ------------------------------------------------------------------ the nom context
\* HelpChatNomContext.build_summary_lines(): one line per channel state.
nom_build_summary_lines(states) ==
    [i \in 1 .. Len(states) |->
        mention(states[i].channel) \o <<":", " ">> \o Str(states[i].total_messages)
            \o <<" ", "(">> \o Str(states[i].total_message_length) \o <<")">>]

\* The values of options.nom_summary_batch_length: one line ("<#A>: 0 (0)") is 11
\* characters long.
NomBatchLengths == {11, 12, 24}

\* The nom context reads only the content of a message.
NomMessages ==
    IF reuse = "single"
    THEN { m \in Messages : m.author = "U1" /\ m.created_at.day = 1 }
    ELSE HistoryMessages

\* make_summary_batch_embed(batch_no, count_batches, text)
make_summary_batch_embed(batch_no, count_batches, text) ==
    [description |-> text,
     footer |-> IF count_batches > 1 THEN <<batch_no, count_batches>> ELSE <<>>]

\* update() has returned to run(), which goes on to its next await.
nom_update_continue(r) ==
    CASE pc[r] = "update_initial" ->
            /\ pc' = [pc EXCEPT ![r] = "typing_enter"]
            /\ UNCHANGED channel_states
      [] pc[r] = "update_scanning" ->
            /\ channel_states' =
                    [channel_states EXCEPT ![iter_list[r]] = start_counters(@, idx[r])]
            /\ pc' = [pc EXCEPT ![r] = "history"]
      [] pc[r] = "update_final" ->
            /\ pc' = [pc EXCEPT ![r] = "returned"]
            /\ UNCHANGED channel_states

\* Lines 60-66, 175, 159-164: reset(), then update() up to the send it awaits.
Nom_Begin(r) ==
    /\ cls = "HelpChatNomContext"
    /\ may_start(r)
    /\ self_progress_message' = None
    /\ self_summary_messages' = [is_none |-> TRUE, messages |-> <<>>]
    /\ channel_states' = [channel_states EXCEPT ![r] = fresh_channel_states]
    /\ self_channel_states' = r
    /\ update_call(r, channel_states'[self_channel_states'])
    /\ fetched' = [fetched EXCEPT ![r] = [i \in 1 .. Len(help_channels) |-> <<>>]]
    /\ pc' = [pc EXCEPT ![r] = "update_initial"]
    /\ UNCHANGED <<cls, reuse, self_after, self_before, help_channels, self_user_table, user_tables, iter_list,
                   idx, typing, exception, report, sent, summary_batches, summary_no,
                   split_length, summaryVars, batchVars>>

\* Lines 160-169: the progress text has been sent or edited; if every channel is
\* complete and no summary exists, the batches are computed and the first one is
\* sent (batches[0] raises IndexError when there is none); otherwise update()
\* returns to run().
Nom_ProgressSent(r) ==
    /\ cls = "HelpChatNomContext"
    /\ pc[r] \in {"update_initial", "update_scanning", "update_final"}
    /\ summary_no[r] = 0
    /\ update_return(r)
    /\ IF is_finished(CurrentStates) /\ self_summary_messages.is_none
       THEN LET batches ==
                    batch_summary_text(nom_build_summary_lines(CurrentStates),
                                       split_length)
            IN  /\ self_summary_messages' = [is_none |-> FALSE, messages |-> <<>>]
                /\ IF batches = <<>>
                   THEN /\ pc' = [pc EXCEPT ![r] = "raised"]
                        /\ exception' = [exception EXCEPT ![r] = Raised(r, "IndexError")]
                        /\ typing' = [typing EXCEPT ![r] = FALSE]
                        /\ UNCHANGED <<summary_batches, summary_no>>
                   ELSE /\ summary_batches' = [summary_batches EXCEPT ![r] = batches]
                        /\ summary_no' = [summary_no EXCEPT ![r] = 1]
                        /\ UNCHANGED <<pc, exception, typing>>
                /\ UNCHANGED channel_states
       ELSE /\ nom_update_continue(r)
            /\ UNCHANGED <<nomVars, exception, typing>>
    /\ UNCHANGED <<cls, reuse, self_after, self_before, help_channels, self_channel_states, self_user_table,
                   user_tables, iter_list, idx, fetched, progress_text,
                   progress_target, report, split_length, summaryVars, batchVars>>

\* Lines 146-155, 168-169: a summary message has been sent and is appended to
\* self._summary_messages; the next batch is sent, or update() returns to run().
Nom_SummarySent(r) ==
    /\ cls = "HelpChatNomContext"
    /\ pc[r] \in {"update_initial", "update_scanning", "update_final"}
    /\ summary_no[r] > 0
    /\ sent' = Append(sent,
            [run |-> r,
             kind |-> "summary",
             op |-> "send",
             message |-> Len(sent) + 1,
             content |->
                [text |-> IF summary_no[r] = 1 THEN "Here are the results:" ELSE "",
                 embed |->
                    make_summary_batch_embed(summary_no[r], Len(summary_batches[r]),
                                             summary_batches[r][summary_no[r]])]])
    /\ IF self_summary_messages.is_none
       THEN /\ pc' = [pc EXCEPT ![r] = "raised"]
            /\ exception' = [exception EXCEPT ![r] = Raised(r, "AttributeError")]
            /\ typing' = [typing EXCEPT ![r] = FALSE]
            /\ UNCHANGED <<self_summary_messages, summary_no, channel_states>>
       ELSE /\ self_summary_messages' =
                    [self_summary_messages EXCEPT !.messages = Append(@, Len(sent) + 1)]
            /\ IF summary_no[r] < Len(summary_batches[r])
               THEN /\ summary_no' = [summary_no EXCEPT ![r] = @ + 1]
                    /\ UNCHANGED <<pc, channel_states>>
               ELSE /\ summary_no' = [summary_no EXCEPT ![r] = 0]
                    /\ nom_update_continue(r)
            /\ UNCHANGED <<exception, typing>>
    /\ UNCHANGED <<cls, reuse, self_after, self_before, help_channels, self_channel_states, self_user_table,
                   self_progress_message, user_tables, iter_list, idx, fetched,
                   progress_text, progress_target, report, summary_batches,
                   split_length, summaryVars, batchVars>>

\* Lines 178-184 (or 178, 203 for no channels): the typing scope is held and the
\* loop starts over the list self._channel_states refers to.
Nom_EnterLoop(r) ==
    /\ cls = "HelpChatNomContext"
    /\ pc[r] = "typing_enter"
    /\ iter_list' = [iter_list EXCEPT ![r] = self_channel_states]
    /\ UNCHANGED <<self_channel_states, self_progress_message>>
    /\ loop_head(r, channel_states, 1)
    /\ UNCHANGED <<cls, reuse, self_after, self_before, help_channels, self_user_table, user_tables, fetched,
                   exception, report, sent, nomVars, split_length, summaryVars, batchVars>>

\* Lines 189-196: the history yields one more message, which is processed.
Nom_Message(r) ==
    /\ cls = "HelpChatNomContext"
    /\ pc[r] = "history"
    /\ AllFetched < MaxMessages
    /\ \E message \in NomMessages :
        /\ in_window(message.created_at)
        /\ fetched' = [fetched EXCEPT ![r][idx[r]] = Append(@, message)]
        /\ IF has_content(message)
           THEN channel_states' =
                    [channel_states EXCEPT ![iter_list[r]] =
                        count_message(@, idx[r], message)]
           ELSE UNCHANGED channel_states
    /\ UNCHANGED <<cls, reuse, self_after, self_before, help_channels, self_channel_states, self_user_table,
                   self_progress_message, user_tables, pc, iter_list, idx,
                   progress_text, progress_target, typing, exception, report, sent,
                   nomVars, split_length, summaryVars, batchVars>>

\* Lines 189, 200, then 180-184 or 203: the history is exhausted, the channel is
\* marked complete and the loop goes on.
Nom_ChannelComplete(r) ==
    /\ cls = "HelpChatNomContext"
    /\ pc[r] = "history"
    /\ UNCHANGED <<iter_list, self_channel_states, self_progress_message>>
    /\ loop_head(r,
                 [channel_states EXCEPT ![iter_list[r]] = mark_complete(@, idx[r])],
                 idx[r] + 1)
    /\ UNCHANGED <<cls, reuse, self_after, self_before, help_channels, self_user_table, user_tables, fetched,
                   exception, report, sent, nomVars, split_length, summaryVars, batchVars>>

\* Line 189: fetching from the history fails; the exception leaves the typing
\* scope and run().
Nom_FetchError(r) ==
    /\ cls = "HelpChatNomContext"
    /\ pc[r] = "history"
    /\ pc' = [pc EXCEPT ![r] = "raised"]
    /\ exception' = [exception EXCEPT ![r] = Raised(r, "HTTPException")]
    /\ typing' = [typing EXCEPT ![r] = FALSE]
    /\ UNCHANGED <<ctxVars, iter_list, idx, fetched, progress_text, progress_target,
                   report, sent, nomVars, split_length, summaryVars, batchVars>>

\* Lines 146-164: the send or the edit awaited by update() fails.
Nom_UpdateError(r) ==
    /\ cls = "HelpChatNomContext"
    /\ pc[r] \in {"update_initial", "update_scanning", "update_final"}
    /\ pc' = [pc EXCEPT ![r] = "raised"]
    /\ exception' = [exception EXCEPT ![r] = Raised(r, "HTTPException")]
    /\ typing' = [typing EXCEPT ![r] = FALSE]
    /\ UNCHANGED <<ctxVars, iter_list, idx, fetched, progress_text, progress_target,
                   report, sent, nomVars, split_length, summaryVars, batchVars>>

\* Line 178: entering the typing scope fails; the scope is not held.
Nom_TypingError(r) ==
    /\ cls = "HelpChatNomContext"
    /\ pc[r] = "typing_enter"
    /\ pc' = [pc EXCEPT ![r] = "raised"]
    /\ exception' = [exception EXCEPT ![r] = Raised(r, "HTTPException")]
    /\ UNCHANGED <<ctxVars, iter_list, idx, fetched, progress_text, progress_target,
                   typing, report, sent, nomVars, split_length, summaryVars, batchVars>>

\* The task running run() is cancelled while suspended at any of its awaits.
Nom_Cancel(r) ==
    /\ cls = "HelpChatNomContext"
    /\ pc[r] \in {"update_initial", "typing_enter", "update_scanning", "history",
                  "update_final"}
    /\ pc' = [pc EXCEPT ![r] = "raised"]
    /\ exception' = [exception EXCEPT ![r] = Raised(r, "CancelledError")]
    /\ typing' = [typing EXCEPT ![r] = FALSE]
    /\ UNCHANGED <<ctxVars, iter_list, idx, fetched, progress_text, progress_target,
                   report, sent, nomVars, split_length, summaryVars, batchVars>>

\* ------------------------------------------------------------------ the report
\* The ids of the users a report's table may hold.
ReportUsers == Authors \cup {"U3"}

\* str(n) for an int.
StrInt(n) == IF n < 0 THEN <<"-">> \o Str(0 - n) ELSE Str(n)

\* sum(user_record.values())
RECURSIVE SumValues(_)
SumValues(user_record) ==
    IF DOMAIN user_record = {} THEN 0
    ELSE LET k == CHOOSE k \in DOMAIN user_record : TRUE
         IN  user_record[k]
                + SumValues([j \in (DOMAIN user_record) \ {k} |-> user_record[j]])

\* get_user_results(): (user_id, score, days_active) for each user, in the
\* iteration order of the table.
get_user_results(table) ==
    [k \in 1 .. Len(table) |->
        [user_id |-> table[k].user_id,
         score |-> SumValues(table[k].user_record),
         days_active |-> Cardinality(DOMAIN table[k].user_record)]]

\* key=lambda row: -row[1]
sort_key(row) == 0 - row.score

\* Mutant: a row goes before the rows of equal key already placed.
stays_before_unstable(placed, row) == sort_key(placed) < sort_key(row)

\* sorted() is stable: a row already placed stays before a later row unless the
\* later row's key is smaller.
stays_before(placed, row) == sort_key(placed) <= sort_key(row)

RECURSIVE insert_sorted(_, _)
insert_sorted(row, placed) ==
    IF placed = <<>> THEN <<row>>
    ELSE IF stays_before(Head(placed), row)
         THEN <<Head(placed)>> \o insert_sorted(row, Tail(placed))
         ELSE <<row>> \o placed

RECURSIVE sorted(_, _)
\* sorted(results, key=...): the results placed one by one, in order.
sorted(placed, results) ==
    IF results = <<>> THEN placed
    ELSE sorted(insert_sorted(Head(results), placed), Tail(results))

\* Mutant: the loop stops at max_rows only.
loop_breaks_on_rows_only(i, row, rows_limit, score_limit) == i >= rows_limit

\* (i >= options.max_rows) or (score < options.min_score)
loop_breaks(i, row, rows_limit, score_limit) ==
    (i >= rows_limit) \/ (row.score < score_limit)

RECURSIVE user_lines_loop(_, _, _, _)
\* Lines 90-93: the rows that get a line, from enumerate index i on.
user_lines_loop(sorted_user_results, i, rows_limit, score_limit) ==
    IF i >= Len(sorted_user_results) THEN <<>>
    ELSE IF loop_breaks(i, sorted_user_results[i + 1], rows_limit, score_limit)
         THEN <<>>
         ELSE <<sorted_user_results[i + 1]>>
                \o user_lines_loop(sorted_user_results, i + 1, rows_limit, score_limit)

\* The rows build_summary_lines() yields a line for.
ranked_rows(table, rows_limit, score_limit) ==
    user_lines_loop(sorted(<<>>, get_user_results(table)), 0, rows_limit, score_limit)

\* The literal parts of the first line.
HeaderTop ==
    <<"S", "h", "o", "w", "i", "n", "g", " ", "t", "h", "e", " ", "t", "o", "p", " ">>
HeaderOf ==
    <<" ", "r", "e", "s", "u", "l", "t", "s", " ", "(", "o", "f", " ">>
HeaderScore ==
    <<")", " ", "w", "i", "t", "h", " ", "a", " ", "s", "c", "o", "r", "e", " ", "o",
      "f", " ", "a", "t", " ", "l", "e", "a", "s", "t", " ">>
HeaderSum ==
    <<".", " ", "A", " ", "u", "s", "e", "r", "'", "s", " ", "s", "c", "o", "r", "e",
      " ", "i", "s", " ", "d", "e", "t", "e", "r", "m", "i", "n", "e", "d", " ", "b",
      "y", " ", "s", "u", "m", "m", "i", "n", "g", " ", "t", "h", "e", " ", "l", "e",
      "n", "g", "t", "h", " ", "o", "f", " ", "a", "l", "l", " ", "t", "h", "e", "i",
      "r", " ", "m", "e", "s", "s", "a", "g", "e", "s", " ", "f", "r", "o", "m", " ">>
HeaderUpTo ==
    <<" ", "u", "p", " ", "t", "o", " ">>
HeaderEnd ==
    <<".", "\n">>

\* Lines 82-88: the first line.
header_line(count_results, rows_limit, score_limit) ==
    HeaderTop \o StrInt(rows_limit) \o HeaderOf \o StrInt(count_results)
        \o HeaderScore \o StrInt(score_limit) \o HeaderSum \o date_str(self_after)
        \o HeaderUpTo \o date_str(self_before) \o HeaderEnd

DaysActive ==
    <<" ", "d", "a", "y", "s", " ", "a", "c", "t", "i", "v", "e", ")">>

\* Line 93: the line of one user.
user_line(row) ==
    <<"<", "@", row.user_id, ">", ":", " ", "*", "*">> \o StrInt(row.score)
        \o <<"*", "*", " ", "(">> \o StrInt(row.days_active) \o DaysActive

\* HelpChatReport.build_summary_lines(options)
build_summary_lines(table, rows_limit, score_limit) ==
    <<header_line(Len(table), rows_limit, score_limit)>>
        \o [k \in 1 .. Len(ranked_rows(table, rows_limit, score_limit)) |->
                user_line(ranked_rows(table, rows_limit, score_limit)[k])]

\* HelpChatReport.make_summary_batch_embed(batch_no, count_batches, text)
report_make_summary_batch_embed(batch_no, count_batches, text) ==
    [title |-> "Help-chat Report",
     description |-> text,
     footer |-> IF count_batches > 1 THEN <<batch_no, count_batches>> ELSE <<>>]

\* Lines 108-115: the options are built, the batches are computed and the first
\* one is sent as a reply (batches[0] raises IndexError when there is none).
Summarize_Begin(r) ==
    /\ cls = "HelpChatReport"
    /\ may_start(r)
    /\ LET table == user_tables[report[r].user_table]
           batches == batch_summary_text(
                          build_summary_lines(table, max_rows, min_score), split_length)
       IN  /\ rows' = [rows EXCEPT ![r] = ranked_rows(table, max_rows, min_score)]
           /\ lines' = build_summary_lines(table, max_rows, min_score)
           /\ summary_batches' = [summary_batches EXCEPT ![r] = batches]
           /\ IF batches = <<>>
              THEN /\ pc' = [pc EXCEPT ![r] = "raised"]
                   /\ exception' = [exception EXCEPT ![r] = Raised(r, "IndexError")]
                   /\ UNCHANGED summary_no
              ELSE /\ pc' = [pc EXCEPT ![r] = "summarize_send"]
                   /\ summary_no' = [summary_no EXCEPT ![r] = 1]
                   /\ UNCHANGED exception
    /\ UNCHANGED <<ctxVars, iter_list, idx, fetched, progress_text, progress_target,
                   typing, report, sent, self_summary_messages, split_length,
                   max_rows, min_score, line_no, batch, yielded, batch_pc>>

\* Lines 115-124: the reply or the send of a batch returns; the next batch is sent,
\* or summarize() returns.
Summarize_Sent(r) ==
    /\ cls = "HelpChatReport"
    /\ pc[r] = "summarize_send"
    /\ sent' = Append(sent,
            [run |-> r,
             kind |-> "summary",
             op |-> IF summary_no[r] = 1 THEN "reply" ELSE "send",
             message |-> Len(sent) + 1,
             content |->
                [text |-> IF summary_no[r] = 1 THEN "The results are in:" ELSE "",
                 embed |->
                    report_make_summary_batch_embed(
                        summary_no[r], Len(summary_batches[r]),
                        summary_batches[r][summary_no[r]])]])
    /\ IF summary_no[r] < Len(summary_batches[r])
       THEN /\ summary_no' = [summary_no EXCEPT ![r] = @ + 1]
            /\ UNCHANGED pc
       ELSE /\ summary_no' = [summary_no EXCEPT ![r] = 0]
            /\ pc' = [pc EXCEPT ![r] = "returned"]
    /\ UNCHANGED <<ctxVars, iter_list, idx, fetched, progress_text, progress_target,
                   typing, exception, report, self_summary_messages, summary_batches,
                   split_length, summaryVars, batchVars>>

\* Lines 115, 121: the reply or the send awaited by summarize() fails.
Summarize_SendError(r) ==
    /\ cls = "HelpChatReport"
    /\ pc[r] = "summarize_send"
    /\ pc' = [pc EXCEPT ![r] = "raised"]
    /\ exception' = [exception EXCEPT ![r] = Raised(r, "HTTPException")]
    /\ UNCHANGED <<ctxVars, iter_list, idx, fetched, progress_text, progress_target,
                   typing, report, sent, nomVars, split_length, summaryVars, batchVars>>

\* The task running summarize() is cancelled while suspended at an await.
Summarize_Cancel(r) ==
    /\ cls = "HelpChatReport"
    /\ pc[r] = "summarize_send"
    /\ pc' = [pc EXCEPT ![r] = "raised"]
    /\ exception' = [exception EXCEPT ![r] = Raised(r, "CancelledError")]
    /\ UNCHANGED <<ctxVars, iter_list, idx, fetched, progress_text, progress_target,
                   typing, report, sent, nomVars, split_length, summaryVars, batchVars>>

\* ------------------------------------------------------------------ build_progress_text() alone
\* build_progress_text() is called on the context and its text is kept.
Render(r) ==
    /\ pc[r] = "idle"
    /\ progress_text' = [progress_text EXCEPT ![r] = build_progress_text(CurrentStates)]
    /\ pc' = [pc EXCEPT ![r] = "rendered"]
    /\ UNCHANGED <<ctxVars, iter_list, idx, fetched, progress_target, typing, exception,
                   report, sent, nomVars, split_length, summaryVars, batchVars>>

\* ------------------------------------------------------------------ specification
\* The state after __init__, for a context the caller uses as `use`.
InitContext(use) ==
    /\ reuse = use
    /\ self_channel_states = None
    /\ self_user_table = None
    /\ self_progress_message = None
    /\ channel_states = [r \in Runs |-> <<>>]
    /\ user_tables = [r \in Runs |-> <<>>]
    /\ pc = [r \in Runs |-> "idle"]
    /\ iter_list = [r \in Runs |-> None]
    /\ idx = [r \in Runs |-> 0]
    /\ fetched = [r \in Runs |-> <<>>]
    /\ progress_text = [r \in Runs |-> NoText]
    /\ progress_target = [r \in Runs |-> None]
    /\ typing = [r \in Runs |-> FALSE]
    /\ exception = [r \in Runs |-> NoException]
    /\ report = [r \in Runs |-> NoReport]
    /\ sent = <<>>
    /\ self_summary_messages = [is_none |-> cls # "HelpChatNomContext", messages |-> <<>>]
    /\ summary_batches = [r \in Runs |-> <<>>]
    /\ summary_no = [r \in Runs |-> 0]

\* The windows a context may be given: after < before, after = before and
\* after > before.
Windows == { <<1, 3>>, <<2, 2>>, <<3, 1>> }

\* The window from 2024-01-01 to 2024-01-03.
ScenarioWindow == <<1, 3>>

\* self.after and self.before as __init__ stores them.
InitWindow(window) ==
    /\ self_after = window[1]
    /\ self_before = window[2]

\* No report is being summarized.
InitNoSummary ==
    /\ max_rows = 0
    /\ min_score = 0
    /\ rows = [r \in Runs |-> <<>>]

\* No batch_summary_text() generator is running.
InitNoBatch ==
    /\ lines = <<>>
    /\ line_no = 0
    /\ batch = <<>>
    /\ yielded = <<>>
    /\ batch_pc = "idle"

Init ==
    /\ cls \in {"HelpChatReportBuildContext", "HelpChatNomContext"}
    /\ help_channels \in {SubSeq(ChannelNames, 1, n) : n \in 0 .. MaxChannels}
    /\ split_length \in (IF cls = "HelpChatNomContext" THEN NomBatchLengths ELSE {0})
    /\ \E window \in Windows : InitWindow(window)
    /\ InitContext("single")
    /\ InitNoSummary
    /\ InitNoBatch

Next ==
    \E r \in Runs :
        \/ Build_Begin(r)
        \/ Build_InitialUpdated(r)
        \/ Build_EnterLoop(r)
        \/ Build_StartHistory(r)
        \/ Build_Message(r)
        \/ Build_ChannelComplete(r)
        \/ Build_FetchError(r)
        \/ Build_UpdateError(r)
        \/ Build_TypingError(r)
        \/ Build_Cancel(r)
        \/ Build_Return(r)
        \/ Nom_Begin(r)
        \/ Nom_ProgressSent(r)
        \/ Nom_SummarySent(r)
        \/ Nom_EnterLoop(r)
        \/ Nom_Message(r)
        \/ Nom_ChannelComplete(r)
        \/ Nom_FetchError(r)
        \/ Nom_UpdateError(r)
        \/ Nom_TypingError(r)
        \/ Nom_Cancel(r)

Spec == Init /\ [][Next]_vars

\* The steps of build() alone.
NextBuild ==
    \E r \in Runs :
        \/ Build_Begin(r)
        \/ Build_InitialUpdated(r)
        \/ Build_EnterLoop(r)
        \/ Build_StartHistory(r)
        \/ Build_Message(r)
        \/ Build_ChannelComplete(r)
        \/ Build_FetchError(r)
        \/ Build_UpdateError(r)
        \/ Build_TypingError(r)
        \/ Build_Cancel(r)
        \/ Build_Return(r)

\* build() is called on one context again while earlier calls are still suspended.
InitOverlap ==
    /\ cls = "HelpChatReportBuildContext"
    /\ help_channels \in {SubSeq(ChannelNames, 1, n) : n \in 0 .. MaxChannels}
    /\ split_length = 0
    /\ InitWindow(ScenarioWindow)
    /\ InitContext("overlap")
    /\ InitNoSummary
    /\ InitNoBatch

SpecOverlap == InitOverlap /\ [][NextBuild]_vars

\* build() or run() is called on one context again after the earlier call has
\* ended; the context has one help channel less than MaxChannels at most.
InitRerun ==
    /\ cls \in {"HelpChatReportBuildContext", "HelpChatNomContext"}
    /\ help_channels \in {SubSeq(ChannelNames, 1, n) : n \in 0 .. MaxChannels - 1}
    /\ split_length \in (IF cls = "HelpChatNomContext" THEN NomBatchLengths ELSE {0})
    /\ InitWindow(ScenarioWindow)
    /\ InitContext("sequential")
    /\ InitNoSummary
    /\ InitNoBatch

SpecRerun == InitRerun /\ [][Next]_vars

\* ------------------------------------------------------------------ the line batcher alone
\* The characters of the lines.
Chars == {"a", "b"}

\* The strings of at most n characters that repeat one character.
Strings(n) == { [i \in 1 .. k |-> c] : k \in 0 .. n, c \in Chars }

\* All sequences of at most n lines.
LineSeqs(n) == UNION { [1 .. k -> Strings(MaxLineLen)] : k \in 0 .. n }

InitBatch ==
    /\ cls = "HelpChatReport"
    /\ help_channels = <<>>
    /\ split_length \in 0 .. MaxSplit
    /\ InitWindow(ScenarioWindow)
    /\ InitContext("single")
    /\ InitNoSummary
    /\ lines \in LineSeqs(MaxLines)
    /\ line_no = 0
    /\ batch = <<>>
    /\ yielded = <<>>
    /\ batch_pc = "idle"

NextBatch ==
    \/ Batch_Start
    \/ Batch_Line
    \/ Batch_End

SpecBatch == InitBatch /\ [][NextBatch]_vars

\* The batcher under any limit: split_length is an int nothing validates.
InitBatchAnyLimit ==
    /\ cls = "HelpChatReport"
    /\ help_channels = <<>>
    /\ split_length \in (0 - MaxSplit) .. MaxSplit
    /\ InitWindow(ScenarioWindow)
    /\ InitContext("single")
    /\ InitNoSummary
    /\ lines \in LineSeqs(MaxLines)
    /\ line_no = 0
    /\ batch = <<>>
    /\ yielded = <<>>
    /\ batch_pc = "idle"

SpecBatchAnyLimit == InitBatchAnyLimit /\ [][NextBatch]_vars

\* ------------------------------------------------------------------ build_progress_text() alone
\* The counters a channel state may hold once they are set.
CounterPairs ==
    { c \in [total_messages : 0 .. MaxMessages, total_message_length : 0 .. MaxMessages] :
        c.total_message_length = 0 \/ c.total_messages > 0 }

\* The states one channel may be in, whatever the runs that share the list:
\* INCOMPLETE without counters, IN_PROGRESS before or after the counters are set,
\* COMPLETE with counters.
ChannelStatesOf(help_channel) ==
    { ChannelState(help_channel),
      [ChannelState(help_channel) EXCEPT !.status = IN_PROGRESS] }
        \cup { [channel |-> help_channel,
                status |-> status,
                total_messages |-> c.total_messages,
                total_message_length |-> c.total_message_length] :
                    status \in {IN_PROGRESS, COMPLETE}, c \in CounterPairs }

\* The lists of channel states over the first n help channels.
ChannelStateLists(n) ==
    { l \in [1 .. n -> UNION { ChannelStatesOf(ChannelNames[i]) : i \in 1 .. n }] :
        \A i \in 1 .. n : l[i].channel = ChannelNames[i] }

InitRender ==
    /\ cls \in {"HelpChatReportBuildContext", "HelpChatNomContext"}
    /\ reuse = "single"
    /\ InitWindow(ScenarioWindow)
    /\ help_channels \in {SubSeq(ChannelNames, 1, n) : n \in 0 .. MaxChannels}
    /\ self_channel_states = 1
    /\ self_user_table = None
    /\ self_progress_message = None
    /\ \E l \in ChannelStateLists(Len(help_channels)) :
          channel_states = [r \in Runs |-> IF r = 1 THEN l ELSE <<>>]
    /\ user_tables = [r \in Runs |-> <<>>]
    /\ pc = [r \in Runs |-> "idle"]
    /\ iter_list = [r \in Runs |-> None]
    /\ idx = [r \in Runs |-> 0]
    /\ fetched = [r \in Runs |-> <<>>]
    /\ progress_text = [r \in Runs |-> NoText]
    /\ progress_target = [r \in Runs |-> None]
    /\ typing = [r \in Runs |-> FALSE]
    /\ exception = [r \in Runs |-> NoException]
    /\ report = [r \in Runs |-> NoReport]
    /\ sent = <<>>
    /\ self_summary_messages = [is_none |-> TRUE, messages |-> <<>>]
    /\ summary_batches = [r \in Runs |-> <<>>]
    /\ summary_no = [r \in Runs |-> 0]
    /\ split_length = 0
    /\ InitNoSummary
    /\ InitNoBatch

NextRender == \E r \in Runs : Render(r)

SpecRender == InitRender /\ [][NextRender]_vars

\* ------------------------------------------------------------------ summarize() alone
\* The daily record keys of the two days.
Day1 == <<2024, 1, 1>>
Day2 == <<2024, 1, 2>>

\* The records a user may have: scores 22 (two days), 15, 7 and 0.
UserRecords ==
    { (Day1 :> 15) @@ (Day2 :> 7), (Day2 :> 15), (Day1 :> 7), (Day1 :> 0) }

\* The user tables of at most n users, in every insertion order.
UserTables(n) ==
    { t \in UNION { [1 .. k -> [user_id : ReportUsers, user_record : UserRecords]] :
                        k \in 0 .. n } :
        \A i, j \in 1 .. Len(t) : i # j => t[i].user_id # t[j].user_id }

\* The values of options.min_score.
MinScores == {0, 15, 25}

\* The values of options.split_length: none is rejected.  The first line is 190
\* characters long or more and a user's line 27 or more.
SplitLengths == {0 - 1, 0, 230, 2000}

InitSummarize ==
    /\ cls = "HelpChatReport"
    /\ reuse = "single"
    /\ InitWindow(ScenarioWindow)
    /\ help_channels = <<>>
    /\ self_channel_states = None
    /\ self_user_table = None
    /\ self_progress_message = None
    /\ channel_states = [r \in Runs |-> <<>>]
    /\ \E table \in UserTables(MaxUsers) : user_tables = [r \in Runs |-> table]
    /\ report = [r \in Runs |-> [channel_states |-> r, user_table |-> r]]
    /\ pc = [r \in Runs |-> "idle"]
    /\ iter_list = [r \in Runs |-> None]
    /\ idx = [r \in Runs |-> 0]
    /\ fetched = [r \in Runs |-> <<>>]
    /\ progress_text = [r \in Runs |-> NoText]
    /\ progress_target = [r \in Runs |-> None]
    /\ typing = [r \in Runs |-> FALSE]
    /\ exception = [r \in Runs |-> NoException]
    /\ sent = <<>>
    /\ self_summary_messages = [is_none |-> TRUE, messages |-> <<>>]
    /\ summary_batches = [r \in Runs |-> <<>>]
    /\ summary_no = [r \in Runs |-> 0]
    /\ split_length \in SplitLengths
    /\ max_rows \in 0 .. MaxRows
    /\ min_score \in MinScores
    /\ rows = [r \in Runs |-> <<>>]
    /\ InitNoBatch

NextSummarize ==
    \E r \in Runs :
        \/ Summarize_Begin(r)
        \/ Summarize_Sent(r)
        \/ Summarize_SendError(r)
        \/ Summarize_Cancel(r)

SpecSummarize == InitSummarize /\ [][NextSummarize]_vars


\* ------------------------------------------------------------------ claims
\* The statuses of a list of channel states, in order.
StatusesOf(states) == [i \in 1 .. Len(states) |-> states[i].status]

\* The glyph row that renders a sequence of statuses.
GlyphRow(statuses) == [i \in 1 .. Len(statuses) |-> STATUS_EMOJI[statuses[i]]]

\* The glyph rows of the progress texts the platform received from run r, in order.
ProgressRows(r) ==
    LET mine == SelectSeq(sent, LAMBDA e : e.run = r /\ e.kind = "progress")
    IN  [k \in 1 .. Len(mine) |-> mine[k].content.progress_emoji]

\* The run ended by a failure of the history fetch.
FetchFailed(r) ==
    /\ pc[r] = "raised"
    /\ exception[r] = [type |-> "HTTPException", at |-> "history"]

\* C1: no step moves a channel state from INCOMPLETE (PENDING) directly to COMPLETE
\* (DONE), from IN_PROGRESS (SCANNING) back to INCOMPLETE, or from COMPLETE to any
\* other status: a status either stays or advances by exactly one stage.
C1_StatusOrder ==
    [][\A r \in Runs : \A i \in 1 .. Len(channel_states[r]) :
          /\ i <= Len(channel_states'[r])
          /\ \/ channel_states'[r][i].status = channel_states[r][i].status
             \/ /\ channel_states[r][i].status = INCOMPLETE
                /\ channel_states'[r][i].status = IN_PROGRESS
             \/ /\ channel_states[r][i].status = IN_PROGRESS
                /\ channel_states'[r][i].status = COMPLETE]_vars

\* C1 witness: a run has taken its first channel through all three statuses and
\* its second one into IN_PROGRESS.
C1_Witness ==
    \E r \in Runs :
        /\ Len(channel_states[r]) >= 2
        /\ channel_states[r][1].status = COMPLETE
        /\ channel_states[r][2].status = IN_PROGRESS

\* C2 as stated: a failure-free run over [A, B] emits exactly the five snapshots
\* [P,P], [S,P], [D,P], [D,S], [D,D].
C2_FiveSnapshots ==
    \A r \in Runs :
        (pc[r] = "returned" /\ help_channels = <<"A", "B">>)
            => ProgressRows(r) =
                << GlyphRow(<<INCOMPLETE, INCOMPLETE>>),
                   GlyphRow(<<IN_PROGRESS, INCOMPLETE>>),
                   GlyphRow(<<COMPLETE, INCOMPLETE>>),
                   GlyphRow(<<COMPLETE, IN_PROGRESS>>),
                   GlyphRow(<<COMPLETE, COMPLETE>>) >>

\* C2 amended: a failure-free run over [A, B] emits exactly the four snapshots
\* [P,P], [S,P], [D,S], [D,D]: one at the start, one after each channel is marked
\* IN_PROGRESS and one after the last channel is COMPLETE; none shows [D,P].
C2_FourSnapshots ==
    \A r \in Runs :
        (pc[r] = "returned" /\ help_channels = <<"A", "B">>)
            => ProgressRows(r) =
                << GlyphRow(<<INCOMPLETE, INCOMPLETE>>),
                   GlyphRow(<<IN_PROGRESS, INCOMPLETE>>),
                   GlyphRow(<<COMPLETE, IN_PROGRESS>>),
                   GlyphRow(<<COMPLETE, COMPLETE>>) >>

\* C2 witness: a run over [A, B] has returned.
C2_Witness ==
    \E r \in Runs : pc[r] = "returned" /\ help_channels = <<"A", "B">>

\* C3: when the fetch of channel k's history fails, the run has raised, channel k
\* is IN_PROGRESS and stays so, the channels before it are COMPLETE, the channels
\* after it are INCOMPLETE and unfetched, no report exists, and the last progress
\* text the platform received shows exactly these statuses.
C3_FetchFailureAborts ==
    \A r \in Runs :
        FetchFailed(r) =>
            LET states == channel_states[iter_list[r]]
                k == idx[r]
            IN  /\ states[k].status = IN_PROGRESS
                /\ \A i \in 1 .. Len(states) :
                      /\ i < k => states[i].status = COMPLETE
                      /\ i > k => /\ states[i].status = INCOMPLETE
                                  /\ fetched[r][i] = <<>>
                /\ report[r] = NoReport
                /\ ProgressRows(r) # <<>>
                /\ ProgressRows(r)[Len(ProgressRows(r))] = GlyphRow(StatusesOf(states))

\* C3 witness: the fetch failed on the second channel after the first was complete.
C3_Witness ==
    \E r \in Runs : FetchFailed(r) /\ idx[r] = 2

\* C4: a report exists only for a run that returned; its channel states are one per
\* help channel, in input order, each COMPLETE with both counters set; a run that
\* raised (a failure or a cancellation at any await) has no report.
C4_OnlyCompleteReports ==
    \A r \in Runs :
        /\ pc[r] = "raised" => report[r] = NoReport
        /\ report[r] # NoReport =>
              LET states == channel_states[report[r].channel_states]
              IN  /\ pc[r] = "returned"
                  /\ Len(states) = Len(help_channels)
                  /\ \A i \in 1 .. Len(states) :
                        /\ states[i].channel = help_channels[i]
                        /\ states[i].status = COMPLETE
                        /\ states[i].total_messages # None
                        /\ states[i].total_message_length # None

\* C4 witness: a report over two channels has been returned.
C4_Witness ==
    \E r \in Runs : report[r] # NoReport /\ Len(help_channels) = 2

\* C5: the statuses of a run's channels always have the shape COMPLETE*, at most
\* one IN_PROGRESS, INCOMPLETE*: of two channels, the earlier is COMPLETE or the
\* later is INCOMPLETE.
C5_OneAtATimeInOrder ==
    \A r \in Runs : \A i, j \in 1 .. Len(channel_states[r]) :
        i < j => \/ channel_states[r][i].status = COMPLETE
                 \/ channel_states[r][j].status = INCOMPLETE

\* C5 witness: the second of two channels is being scanned, with a message fetched.
C5_Witness ==
    \E r \in Runs :
        /\ Len(channel_states[r]) = 2
        /\ channel_states[r][2].status = IN_PROGRESS
        /\ fetched[r][2] # <<>>

\* A message with non-empty textual content.
Qualifying(message) == message.content.is_str /\ Len(message.content.text) > 0

\* C6: a step that fetches a message with non-empty textual content adds 1 to the
\* channel's total_messages and the content length to its total_message_length and
\* (in build()) records it in the user table; a step that fetches any other message
\* changes neither counter and leaves the user table as it is.
C6_OnlyNonEmptyContentCounts ==
    [][\A r \in Runs : \A i \in 1 .. Len(fetched[r]) :
          (Len(fetched'[r]) >= i /\ Len(fetched'[r][i]) = Len(fetched[r][i]) + 1) =>
              LET message == fetched'[r][i][Len(fetched'[r][i])]
                  old == channel_states[iter_list[r]][i]
                  new == channel_states'[iter_list[r]][i]
              IN  IF Qualifying(message)
                  THEN /\ new.total_messages = old.total_messages + 1
                       /\ new.total_message_length =
                              old.total_message_length + Len(message.content.text)
                       /\ cls = "HelpChatReportBuildContext" =>
                              user_tables'[self_user_table] =
                                  update_user_table(user_tables[self_user_table],
                                                    message)
                  ELSE /\ new.total_messages = old.total_messages
                       /\ new.total_message_length = old.total_message_length
                       /\ user_tables' = user_tables]_vars

\* The qualifying messages among those of a history.
QualifyingOf(history) == SelectSeq(history, Qualifying)

\* The summed content length of the messages of a history.
LengthSum(history) ==
    SumSeq([k \in 1 .. Len(history) |-> Len(history[k].content.text)])

\* The qualifying messages of run r by author u on day d, over one channel.
ByAuthorDay(history, u, d) ==
    SelectSeq(history, LAMBDA m : Qualifying(m) /\ m.author = u /\ daily_key_of(m) = d)

\* The table's value for author u and day d, 0 when there is none.
TableValue(table, u, d) ==
    IF UserIndex(table, u) # 0 /\ d \in DOMAIN table[UserIndex(table, u)].user_record
    THEN table[UserIndex(table, u)].user_record[d]
    ELSE 0

\* The day keys of the instants a message may carry.
DayKeys == { <<t.year, t.month, t.day>> : t \in Instants }

\* C7: in a returned report every channel's total_messages and total_message_length
\* are the number and the summed length of its qualifying messages, and the table's
\* value for every author and day is the summed length of the author's qualifying
\* messages of that day over all channels.
C7_TotalsOfQualifyingMessages ==
    \A r \in Runs :
        report[r] # NoReport =>
            LET states == channel_states[report[r].channel_states]
                table == user_tables[report[r].user_table]
            IN  /\ \A i \in 1 .. Len(states) :
                      /\ states[i].total_messages = Len(QualifyingOf(fetched[r][i]))
                      /\ states[i].total_message_length =
                              LengthSum(QualifyingOf(fetched[r][i]))
                /\ \A u \in Authors : \A d \in DayKeys :
                      TableValue(table, u, d) =
                          SumSeq([i \in 1 .. Len(fetched[r]) |->
                                    LengthSum(ByAuthorDay(fetched[r][i], u, d))])


\* "\n".join(texts)
RECURSIVE Join(_)
Join(texts) ==
    IF texts = <<>> THEN <<>>
    ELSE IF Len(texts) = 1 THEN texts[1]
    ELSE texts[1] \o Newline \o Join(Tail(texts))

\* C8: for a non-empty sequence of lines none of which is longer than the limit,
\* the batches yielded, joined with newlines in order, are exactly the lines joined
\* with newlines.
C8_RoundTrip ==
    (/\ batch_pc = "done"
     /\ lines # <<>>
     /\ \A k \in 1 .. Len(lines) : Len(lines[k]) <= split_length)
        => Join(yielded) = Join(lines)

\* C9: every batch yielded is at most split_length long, unless it is exactly one
\* input line that is itself longer than split_length.
C9_BatchesWithinLimit ==
    \A b \in 1 .. Len(yielded) :
        \/ Len(yielded[b]) <= split_length
        \/ \E k \in 1 .. Len(lines) :
              yielded[b] = lines[k] /\ Len(lines[k]) > split_length

\* C9 witness: the generator has finished having yielded a batch longer than the
\* limit and a batch of two non-empty lines.
C9_Witness ==
    /\ batch_pc = "done"
    /\ \E b \in 1 .. Len(yielded) : Len(yielded[b]) > split_length
    /\ \E b \in 1 .. Len(yielded) : \E k \in 1 .. Len(lines) - 1 :
          /\ lines[k] # <<>>
          /\ lines[k + 1] # <<>>
          /\ yielded[b] = lines[k] \o Newline \o lines[k + 1]

\* C10: under a positive limit every batch yielded is one or more whole consecutive
\* input lines joined with newlines, so (the lines being non-empty) none is the
\* empty string; a line longer than the limit is yielded as a batch of its own.
C10_WholeLinesNoEmptyBatch ==
    (split_length > 0 /\ \A k \in 1 .. Len(lines) : lines[k] # <<>>) =>
        /\ \A b \in 1 .. Len(yielded) :
              /\ yielded[b] # <<>>
              /\ \E i, j \in 1 .. Len(lines) :
                    i <= j /\ yielded[b] = Join(SubSeq(lines, i, j))
        /\ batch_pc = "done" =>
              \A k \in 1 .. Len(lines) :
                  Len(lines[k]) > split_length =>
                      \E b \in 1 .. Len(yielded) : yielded[b] = lines[k]

\* C11: when the generator has finished, under any limit (negative ones included),
\* it has yielded no batch if there were no lines and at least one batch if there
\* was at least one line.
C11_BatchesIffLines ==
    batch_pc = "done" => (yielded = <<>> <=> lines = <<>>)

\* C11 witness: the generator has finished over a non-empty input under a negative
\* limit.
C11_Witness ==
    /\ batch_pc = "done"
    /\ lines # <<>>
    /\ split_length < 0
    /\ yielded # <<>>

\* The table of the report that call r of summarize() reads.
TableOf(r) == user_tables[report[r].user_table]

\* C12: the rows build_summary_lines() has given a line are at most max_rows, each
\* has a score of at least min_score, and their scores do not increase; the lines
\* are the first line followed by one line per row.  For a table with the single
\* author of score 22 and min_score = 25 there is no row.
C12_RankedRowsBounded ==
    \A r \in Runs :
        (cls = "HelpChatReport" /\ pc[r] # "idle") =>
            /\ Len(rows[r]) <= max_rows
            /\ \A k \in 1 .. Len(rows[r]) : rows[r][k].score >= min_score
            /\ \A k \in 1 .. Len(rows[r]) - 1 : rows[r][k].score >= rows[r][k + 1].score
            /\ Len(lines) = 1 + Len(rows[r])
            /\ \A k \in 1 .. Len(rows[r]) : lines[k + 1] = user_line(rows[r][k])
            /\ (/\ Len(TableOf(r)) = 1
                /\ TableOf(r)[1].user_record = (Day1 :> 15) @@ (Day2 :> 7)
                /\ min_score = 25) => rows[r] = <<>>

\* C12 witness: summarize() has returned having listed two users of different
\* scores out of three, the third one being below min_score.
C12_Witness ==
    \E r \in Runs :
        /\ cls = "HelpChatReport"
        /\ pc[r] = "returned"
        /\ Len(TableOf(r)) = 3
        /\ Len(rows[r]) = 2
        /\ rows[r][1].score > rows[r][2].score
        /\ \E k \in 1 .. 3 :
              TableValue(TableOf(r), TableOf(r)[k].user_id, Day1)
                  + TableValue(TableOf(r), TableOf(r)[k].user_id, Day2) < min_score

\* The score of the k-th user of a table: the sum of the user's per-day values.
ScoreAt(table, k) ==
    TableValue(table, table[k].user_id, Day1) + TableValue(table, table[k].user_id, Day2)

\* The place of the k-th user of a table in the ranking: after every user of a
\* higher score and after every user of the same score inserted earlier.
RankAt(table, k) ==
    1 + Cardinality({ j \in 1 .. Len(table) :
                        \/ ScoreAt(table, j) > ScoreAt(table, k)
                        \/ ScoreAt(table, j) = ScoreAt(table, k) /\ j < k })

\* The users of a table in ranking order.
Ranking(table) ==
    [p \in 1 .. Len(table) |->
        LET k == CHOOSE k \in 1 .. Len(table) : RankAt(table, k) = p
        IN  [user_id |-> table[k].user_id,
             score |-> ScoreAt(table, k),
             days_active |-> Cardinality(DOMAIN table[k].user_record)]]

\* The length of the longest prefix of the ranking all of whose rows have a rank
\* index below max_rows and a score of at least min_score.
CutAt(table) ==
    CHOOSE n \in 0 .. Len(table) :
        /\ \A p \in 1 .. n : p - 1 < max_rows /\ Ranking(table)[p].score >= min_score
        /\ n < Len(table) =>
              ~(n < max_rows /\ Ranking(table)[n + 1].score >= min_score)

\* C13: the rows build_summary_lines() has given a line are exactly the longest
\* prefix of the ranking (score descending, equal scores in insertion order) whose
\* rows all have a rank index below max_rows and a score of at least min_score.
C13_RankedRowsExact ==
    \A r \in Runs :
        (cls = "HelpChatReport" /\ pc[r] # "idle") =>
            rows[r] = SubSeq(Ranking(TableOf(r)), 1, CutAt(TableOf(r)))

\* C13 witness: two users of equal score are listed in the order of their
\* insertion, which is not the order of their ids, and a third user who has the
\* score to be listed is cut by max_rows.
C13_Witness ==
    \E r \in Runs :
        /\ cls = "HelpChatReport"
        /\ pc[r] = "returned"
        /\ Len(TableOf(r)) = 3
        /\ Len(rows[r]) = 2
        /\ rows[r][1].score = rows[r][2].score
        /\ rows[r][1].user_id = "U2"
        /\ rows[r][2].user_id = "U1"
        /\ \A k \in 1 .. 3 : ScoreAt(TableOf(r), k) >= min_score

\* The awaits of update().
UpdateAwaits == {"update_initial", "update_scanning", "update_final"}

\* C14: whenever update() is called, the channel states it renders have both
\* counters set for every channel that is IN_PROGRESS (SCANNING) or COMPLETE (DONE)
\* and both unset for every channel that is INCOMPLETE (PENDING); and no step
\* changes a counter of a channel that is COMPLETE.
C14_CountersFollowStatus ==
    [][/\ \A r \in Runs :
            (pc'[r] \in UpdateAwaits /\ pc'[r] # pc[r]) =>
                \A i \in 1 .. Len(channel_states'[self_channel_states']) :
                    LET state == channel_states'[self_channel_states'][i]
                    IN  IF state.status = INCOMPLETE
                        THEN /\ state.total_messages = None
                             /\ state.total_message_length = None
                        ELSE /\ state.total_messages # None
                             /\ state.total_message_length # None
       /\ \A r \in Runs : \A i \in 1 .. Len(channel_states[r]) :
            channel_states[r][i].status = COMPLETE =>
                /\ i <= Len(channel_states'[r])
                /\ channel_states'[r][i] = channel_states[r][i]]_vars

\* C15: the list and the table made by a run's reset() belong to that run.  A step
\* in which run r processes a message changes no table but the one of run r, and a
\* report returned by run r holds the table and the channel-state list of run r.
C15_RunsOwnTheirAggregates ==
    [][\A r \in Runs :
          /\ (pc[r] = "history" /\ fetched'[r] # fetched[r]) =>
                \A q \in Runs : user_tables'[q] # user_tables[q] => q = r
          /\ report'[r] # NoReport =>
                /\ report'[r].user_table = r
                /\ report'[r].channel_states = r]_vars

\* The indices of the channels of a list that are IN_PROGRESS.
ScanningAt(states) == { i \in 1 .. Len(states) : states[i].status = IN_PROGRESS }

\* The index of the channel a mention names.
MentionedAt(states, text) ==
    CHOOSE i \in 1 .. Len(states) : text = <<"<", "#", states[i].channel, ">">>

\* C16: the text build_progress_text() gives for a list of channel states has one
\* glyph per channel, in list order, the three statuses having three different
\* glyphs.  If some channel is IN_PROGRESS the status line is "Scanning: " followed
\* by the mention of every IN_PROGRESS channel, once each, in list order; if none
\* is and all are COMPLETE it is "Done!"; otherwise it is empty.  Two calls on the
\* same list give the same text.
C16_ProgressText ==
    /\ \A a, b \in ChannelStatus : a # b => STATUS_EMOJI[a] # STATUS_EMOJI[b]
    /\ \A r \in Runs :
          pc[r] = "rendered" =>
            LET states == CurrentStates
                text == progress_text[r]
                names == Tail(text.status_text)
            IN  /\ Len(text.progress_emoji) = Len(states)
                /\ \A i \in 1 .. Len(states) :
                      text.progress_emoji[i] = STATUS_EMOJI[states[i].status]
                /\ IF ScanningAt(states) # {}
                   THEN /\ Head(text.status_text) = "Scanning: "
                        /\ Len(names) = Cardinality(ScanningAt(states))
                        /\ \A k \in 1 .. Len(names) :
                              \E i \in ScanningAt(states) :
                                  names[k] = <<"<", "#", states[i].channel, ">">>
                        /\ \A k, l \in 1 .. Len(names) :
                              k < l => MentionedAt(states, names[k])
                                          < MentionedAt(states, names[l])
                   ELSE IF \A i \in 1 .. Len(states) : states[i].status = COMPLETE
                        THEN text.status_text = <<"Done!">>
                        ELSE text.status_text = <<>>
    /\ \A r, q \in Runs :
          (pc[r] = "rendered" /\ pc[q] = "rendered") => progress_text[r] = progress_text[q]

\* C16 witness: a list with two channels IN_PROGRESS at once has been rendered
\* twice.
C16_Witness ==
    /\ \A r \in Runs : pc[r] = "rendered"
    /\ Cardinality(ScanningAt(CurrentStates)) = 2

\* The run is between its call and its end.
InFlight(r) == pc[r] \notin {"idle", "returned", "raised", "rendered"}

\* C17: while a run is in flight without holding the typing scope, none of its
\* channels is IN_PROGRESS, and before the scope is first entered all of them are
\* INCOMPLETE; so the scope is held whenever the run has a channel IN_PROGRESS.
\* Once the run has ended, by returning or by any exception (a fetch failure, a
\* failed progress emission, a cancellation), the scope is not held.
C17_TypingScope ==
    \A r \in Runs :
        /\ (InFlight(r) /\ ~typing[r]) =>
              \A i \in 1 .. Len(CurrentStates) : CurrentStates[i].status # IN_PROGRESS
        /\ pc[r] \in {"update_initial", "typing_enter"} =>
              /\ ~typing[r]
              /\ \A i \in 1 .. Len(CurrentStates) : CurrentStates[i].status = INCOMPLETE
        /\ pc[r] \in {"update_scanning", "history"} => typing[r]
        /\ pc[r] \in {"returned", "raised"} => ~typing[r]

\* C17 witness: a run was cancelled while it fetched the history of its second
\* channel, which is still IN_PROGRESS, and the scope is released.
C17_Witness ==
    \E r \in Runs :
        /\ pc[r] = "raised"
        /\ exception[r] = [type |-> "CancelledError", at |-> "history"]
        /\ idx[r] = 2
        /\ CurrentStates[2].status = IN_PROGRESS
        /\ ~typing[r]

\* C18: on a context whose window has after >= before, a run ends at once with
\* InvalidWindow: the platform receives nothing, no channel leaves INCOMPLETE and
\* no history yields a message.
C18_InvalidWindowRejected ==
    self_after >= self_before =>
        /\ sent = <<>>
        /\ \A r \in Runs :
              /\ pc[r] # "idle" =>
                    /\ pc[r] = "raised"
                    /\ exception[r].type = "InvalidWindow"
              /\ \A i \in 1 .. Len(channel_states[r]) :
                    channel_states[r][i].status = INCOMPLETE
              /\ \A i \in 1 .. Len(fetched[r]) : fetched[r][i] = <<>>

\* C19: with options whose split_length is not positive, summarize() ends at once
\* with InvalidSummaryOptions: no batch is computed and the platform receives
\* nothing.
C19_InvalidOptionsRejected ==
    split_length <= 0 =>
        /\ sent = <<>>
        /\ \A r \in Runs :
              /\ summary_batches[r] = <<>>
              /\ pc[r] # "idle" =>
                    /\ pc[r] = "raised"
                    /\ exception[r].type = "InvalidSummaryOptions"

\* The progress emissions the platform received from run r, in order.
ProgressOf(r) == SelectSeq(sent, LAMBDA e : e.run = r /\ e.kind = "progress")

\* C20: of the progress emissions of a run the first one creates a message (a
\* reply or a send) and every later one edits that message; so a run creates one
\* progress message, and the messages of two runs on one context are different.
C20_OneProgressMessagePerRun ==
    /\ \A r \in Runs : \A k \in 1 .. Len(ProgressOf(r)) :
          IF k = 1
          THEN ProgressOf(r)[k].op \in {"reply", "send"}
          ELSE /\ ProgressOf(r)[k].op = "edit"
               /\ ProgressOf(r)[k].message = ProgressOf(r)[1].message
    /\ \A r, q \in Runs :
          (r # q /\ ProgressOf(r) # <<>> /\ ProgressOf(q) # <<>>) =>
              ProgressOf(r)[1].message # ProgressOf(q)[1].message

\* C20 witness: two runs on one context over at least one channel have both
\* ended normally, one after the other, each with several progress emissions.
C20_Witness ==
    /\ pc[1] = "returned"
    /\ pc[2] = "returned"
    /\ Len(ProgressOf(1)) >= 3
    /\ Len(ProgressOf(2)) >= 3

\* The summary messages the platform received from run r, in order.
SummaryOf(r) == SelectSeq(sent, LAMBDA e : e.run = r /\ e.kind = "summary")

\* The positions in sent of the emissions of run r of a kind.
PositionsOf(r, kind) == { n \in 1 .. Len(sent) : sent[n].run = r /\ sent[n].kind = kind }

\* C21: a run() of the nom context ends by an exception only when the platform
\* failed or the task was cancelled, whatever the channel list, the empty one
\* included.  Summary messages are sent only when every channel is COMPLETE, after
\* every progress emission of the run, one per batch in batch order and numbered
\* from 1 to the number of batches; a run that returned has sent each batch once.
C21_SummarySentOnce ==
    \A r \in Runs :
        cls = "HelpChatNomContext" =>
            /\ pc[r] = "raised" =>
                  exception[r].type \in {"HTTPException", "CancelledError"}
            /\ SummaryOf(r) # <<>> => is_finished(channel_states[r])
            /\ \A n \in PositionsOf(r, "summary") : \A k \in PositionsOf(r, "progress") :
                  k < n
            /\ Len(SummaryOf(r)) <= Len(summary_batches[r])
            /\ \A k \in 1 .. Len(SummaryOf(r)) :
                  /\ SummaryOf(r)[k].content.embed.description = summary_batches[r][k]
                  /\ Len(summary_batches[r]) > 1 =>
                        SummaryOf(r)[k].content.embed.footer
                            = <<k, Len(summary_batches[r])>>
            /\ pc[r] = "returned" =>
                  /\ summary_batches[r] # <<>>
                  /\ Len(SummaryOf(r)) = Len(summary_batches[r])

\* The sum of total_message_length over the channel states whose counters are set.
ChannelLengthSum(states) ==
    SumSeq([i \in 1 .. Len(states) |->
              IF states[i].total_message_length = None THEN 0
              ELSE states[i].total_message_length])

\* The sum of all per-day values over all users of a table.
TableSum(table) == SumSeq([k \in 1 .. Len(table) |-> ScoreAt(table, k)])

====
